---- MODULE Spec2Model ----
(***************************************************************************)
(* Three Telegram bots of the repository.                                  *)
(*                                                                         *)
(*   "index" : the BitMart bot of src/index.js, lines 125-285              *)
(*   "part"  : the BitMart bot of src/unnamed/part_000                     *)
(*   Stars   : the Stars-to-USDT bot of src/index.js, lines 1-123          *)
(*                                                                         *)
(* A handler runs without interruption up to its next await; what happens  *)
(* after the awaited promise settles is a second step of the same handler. *)
(***************************************************************************)
EXTENDS Integers, Sequences, FiniteSets, TLC

\* ---------------------------------------------------------------- bounds
MaxWords == 4          \* words after the command in one message
MaxGap == 2            \* length of a run of spaces between two words
MaxSales == 2          \* successful payments delivered in one run

Words == {"buy", "Sell"}
Chats == {"c1", "c2"}
EnvVals == {"undefined", "", "k"}       \* unset, set but empty, set
ErrMsgs == {"", "e1"}                   \* message of a thrown value
WithdrawMissing == "Withdrawal method not available on installed SDK; check your SDK docs and adjust code."
FuturesMissing == "Futures order method not found in SDK. See SDK docs for exact function name."

VARIABLES
  prog,        \* which BitMart bot runs: "index" or "part"
  env,         \* process.env
  sdk,         \* the method names the installed RestClient / FuturesClientV2 expose
  proc,        \* "boot", "running", "launch_failed", "exited"
  exitCode,    \* status of process.exit, -1 while the process lives
  clients,     \* TRUE once the exchange clients are constructed
  h,           \* per chat: the handler of the chat's latest command message
  sales,       \* Stars bot: rows of table sales, in insertion order
  pay,         \* Stars bot: the successful_payment handlers started, in order
  upd,         \* Stars bot: what the handler of the latest chat update did
  picked       \* Stars bot: per user, Stars amount selected and not yet paid (history)

vars == <<prog, env, sdk, proc, exitCode, clients, h, sales, pay, upd, picked>>
tradeVars == <<prog, env, sdk, proc, exitCode, clients, h>>
starsVars == <<sales, pay, upd, picked>>

\* ------------------------------------------------------- message texts
(* ctx.message.text of a command message: the command followed by words,   *)
(* each word preceded by a run of 1..MaxGap spaces.  Telegram delivers the *)
(* text without leading or trailing whitespace.                            *)
Item == [gap : 1..MaxGap, word : Words]
Rests == UNION {[1..n -> Item] : n \in 0..MaxWords}

RECURSIVE Empties(_)
Empties(n) == IF n <= 0 THEN <<>> ELSE <<"">> \o Empties(n - 1)

\* text.split(' '): every single space separates, so k spaces give k-1 ''
RECURSIVE SplitTail(_)
SplitTail(rest) ==
  IF rest = <<>> THEN <<>>
  ELSE Empties(Head(rest).gap - 1) \o <<Head(rest).word>> \o SplitTail(Tail(rest))

SplitSpace(cmd, rest) == <<cmd>> \o SplitTail(rest)

\* text.split(/\s+/): a run of whitespace separates once
SplitWs(cmd, rest) == <<cmd>> \o [i \in 1..Len(rest) |-> rest[i].word]

toUpperCase(s) ==
  CASE s = "buy" -> "BUY" [] s = "Sell" -> "SELL" [] OTHER -> s

toLowerCase(s) ==
  CASE s = "Sell" -> "sell" [] s = "BUY" -> "buy" [] OTHER -> s

\* ------------------------------------------------------------ handlers
NoCall == [method |-> "none", params |-> <<>>]
\* the words the user typed after the command
WordsOf(rest) == [i \in 1..Len(rest) |-> rest[i].word]

\* how the awaited call settled; NoOut while no call has settled
NoOut == [ok |-> TRUE, by |-> "", data |-> <<>>, message |-> ""]

Idle == [pc |-> "idle", cmd |-> "", args |-> <<>>, call |-> NoCall,
         calls |-> 0, out |-> NoOut, replies |-> <<>>]

Reply(c, kind, body) == [to |-> c, kind |-> kind, body |-> body]

\* a command message of chat c is taken up while the bot polls; the chat's
\* previous handler (if any) has returned
Accepting(c) == proc = "running" /\ h[c].pc = "idle"

\* return ctx.reply('Usage: ...')
Usage(c, cmd, rest) ==
  h' = [h EXCEPT ![c] = [pc |-> "done", cmd |-> cmd, args |-> WordsOf(rest),
                         call |-> NoCall, calls |-> 0, out |-> NoOut,
                         replies |-> <<Reply(c, "usage", cmd)>>]]

\* await client.method(params): the call is issued, the handler is suspended
Invoke(c, cmd, rest, method, params) ==
  h' = [h EXCEPT ![c] = [pc |-> "await", cmd |-> cmd, args |-> WordsOf(rest),
                         call |-> [method |-> method, params |-> params],
                         calls |-> 1, out |-> NoOut, replies |-> <<>>]]

\* an Error thrown inside try before any call was issued, caught and printed
ThrowSync(c, cmd, rest, text) ==
  h' = [h EXCEPT ![c] = [pc |-> "done", cmd |-> cmd, args |-> WordsOf(rest),
                         call |-> NoCall, calls |-> 0, out |-> NoOut,
                         replies |-> <<Reply(c, "error", text)>>]]

\* What the exchange answers to the call c's handler awaits.  A response is
\* tagged with the chat whose call it answers.
BalanceLists ==
  { <<>>,
    <<[currency |-> "USDT", available |-> 0, frozen |-> 0]>>,
    <<[currency |-> "USDT", available |-> 1, frozen |-> 0],
      [currency |-> "BTC", available |-> 0, frozen |-> 0]>> }

Outcomes(c) ==
  {[ok |-> TRUE, by |-> c, data |-> d, message |-> ""] :
      d \in IF h[c].call.method \in {"getAccountBalance", "getAccountBalancesV1"}
            THEN BalanceLists ELSE {<<>>}}
  \cup {[ok |-> FALSE, by |-> c, data |-> <<>>, message |-> m] : m \in ErrMsgs}

\* the handler resumes with the settlement `out`, sends `reply` and ends
Finish(c, out, reply) ==
  h' = [h EXCEPT ![c].pc = "done", ![c].out = out, ![c].replies = Append(@, reply)]

\* the handler's promise is fulfilled and its ctx dropped
Return(c) ==
  /\ h[c].pc = "done"
  /\ h' = [h EXCEPT ![c] = Idle]
  /\ UNCHANGED <<prog, env, sdk, proc, exitCode, clients>>
  /\ UNCHANGED starsVars

Awaiting(c, cmd, p) == prog = p /\ h[c].pc = "await" /\ h[c].cmd = cmd

\* ------------------------------------------------------------- startup
Falsy(v) == v \in {"undefined", ""}

Exit(code) ==
  /\ proc' = "exited"
  /\ exitCode' = code
  /\ UNCHANGED clients

\* new Telegraf, new clients, handler registration, bot.launch().then().catch()
Launch ==
  /\ clients' = TRUE
  /\ \E started \in BOOLEAN : proc' = IF started THEN "running" ELSE "launch_failed"
  /\ UNCHANGED exitCode

\* mutant: the check forgets API_SECRET
MainIndexNoSecret ==
  /\ prog = "index" /\ proc = "boot"
  /\ IF Falsy(env.TELEGRAM_BOT_TOKEN) \/ Falsy(env.BITMART_API_KEY)
     THEN Exit(1)
     ELSE Launch
  /\ UNCHANGED <<prog, env, sdk, h>>
  /\ UNCHANGED starsVars

\* src/index.js: if (!BOT_TOKEN || !API_KEY || !API_SECRET) process.exit(1)
MainIndex ==
  /\ prog = "index" /\ proc = "boot"
  /\ IF \/ Falsy(env.TELEGRAM_BOT_TOKEN)
        \/ Falsy(env.BITMART_API_KEY)
        \/ Falsy(env.BITMART_API_SECRET)
     THEN Exit(1)
     ELSE Launch
  /\ UNCHANGED <<prog, env, sdk, h>>
  /\ UNCHANGED starsVars

\* part_000: if (!BOT_TOKEN) exit(1); if (!KEY || !SECRET) exit(1)
MainPart ==
  /\ prog = "part" /\ proc = "boot"
  /\ IF Falsy(env.TELEGRAM_BOT_TOKEN)
     THEN Exit(1)
     ELSE IF Falsy(env.BITMART_API_KEY) \/ Falsy(env.BITMART_API_SECRET)
          THEN Exit(1)
          ELSE Launch
  /\ UNCHANGED <<prog, env, sdk, h>>
  /\ UNCHANGED starsVars

Keep == /\ UNCHANGED <<prog, env, sdk, proc, exitCode, clients>>
        /\ UNCHANGED starsVars

\* ------------------------------------------- src/index.js, BitMart bot
\* ctx.reply('... ' + err.message)
CatchIndex(c, out) == Finish(c, out, Reply(c, "error", out.message))

\* mutant: the reply goes through a context shared by all handlers, which
\* the latest message of another chat has overwritten
PlacedIndexSharedCtx(c, out) ==
  LET d == CHOOSE x \in Chats : x # c IN
  Finish(c, out, Reply(IF h[d].pc = "await" THEN d ELSE c, "success",
                       [by |-> out.by, data |-> out.data]))

\* ctx.reply(`... placed!\n${JSON.stringify(res, null, 2)}`)
PlacedIndex(c, out) == Finish(c, out, Reply(c, "success", [by |-> out.by, data |-> out.data]))

NonZeroIndex(balances) ==
  SelectSeq(balances, LAMBDA b : b.available > 0 \/ b.frozen > 0)

BalanceIndex(c) ==
  /\ prog = "index" /\ Accepting(c)
  /\ Invoke(c, "balance", <<>>, "getAccountBalance", <<>>)
  /\ Keep

BalanceIndexResume(c) ==
  /\ Awaiting(c, "balance", "index")
  /\ \E out \in Outcomes(c) :
       IF out.ok
       THEN Finish(c, out, Reply(c, "success", [by |-> out.by, data |-> NonZeroIndex(out.data)]))
       ELSE CatchIndex(c, out)
  /\ Keep

SpotBuyIndex(c, texts) ==
  /\ prog = "index" /\ Accepting(c)
  /\ \E rest \in texts :
     LET parts == SplitSpace("/spotbuy", rest) IN
     IF Len(parts) < 4
     THEN Usage(c, "spotbuy", rest)
     ELSE Invoke(c, "spotbuy", rest, "submitOrder",
                 [symbol |-> parts[2], side |-> "buy", type |-> "limit",
                  size |-> parts[3], price |-> parts[4]])
  /\ Keep

SpotBuyIndexResume(c) ==
  /\ Awaiting(c, "spotbuy", "index")
  /\ \E out \in Outcomes(c) :
       IF out.ok THEN PlacedIndex(c, out) ELSE CatchIndex(c, out)
  /\ Keep

SpotSellIndex(c, texts) ==
  /\ prog = "index" /\ Accepting(c)
  /\ \E rest \in texts :
     LET parts == SplitSpace("/spotsell", rest) IN
     IF Len(parts) < 4
     THEN Usage(c, "spotsell", rest)
     ELSE Invoke(c, "spotsell", rest, "submitOrder",
                 [symbol |-> parts[2], side |-> "sell", type |-> "limit",
                  size |-> parts[3], price |-> parts[4]])
  /\ Keep

SpotSellIndexResume(c) ==
  /\ Awaiting(c, "spotsell", "index")
  /\ \E out \in Outcomes(c) :
       IF out.ok THEN PlacedIndex(c, out) ELSE CatchIndex(c, out)
  /\ Keep

WithdrawIndex(c, texts) ==
  /\ prog = "index" /\ Accepting(c)
  /\ \E rest \in texts :
     LET parts == SplitSpace("/withdraw", rest) IN
     IF Len(parts) < 4
     THEN Usage(c, "withdraw", rest)
     ELSE Invoke(c, "withdraw", rest, "submitWithdraw",
                 [currency |-> parts[2], amount |-> parts[4],
                  address |-> parts[3], network |-> "TRC20"])
  /\ Keep

WithdrawIndexResume(c) ==
  /\ Awaiting(c, "withdraw", "index")
  /\ \E out \in Outcomes(c) :
       IF out.ok THEN PlacedIndex(c, out) ELSE CatchIndex(c, out)
  /\ Keep

FuturesIndex(c, texts) ==
  /\ prog = "index" /\ Accepting(c)
  /\ \E rest \in texts :
     LET parts == SplitSpace("/futures", rest) IN
     IF Len(parts) < 5
     THEN Usage(c, "futures", rest)
     ELSE Invoke(c, "futures", rest, "futures.submitOrder",
                 [symbol |-> parts[2], side |-> toUpperCase(parts[3]),
                  type |-> "limit", size |-> parts[4], price |-> parts[5]])
  /\ Keep

FuturesIndexResume(c) ==
  /\ Awaiting(c, "futures", "index")
  /\ \E out \in Outcomes(c) :
       IF out.ok THEN PlacedIndex(c, out) ELSE CatchIndex(c, out)
  /\ Keep

\* ----------------------------------------- src/unnamed/part_000, BitMart bot
SdkMethods == {"createWithdrawalV1", "submitWithdrawV1", "request", "submitContractOrder"}

\* JSON.stringify of an Error object: it has no enumerable own property
StringifyError(out) == "{}"

\* mutant: the reply prints JSON.stringify(err) only
CatchTextJsonOnly(message, json) == json

\* ctx.reply('Error ...: ' + (err.message || JSON.stringify(err)))
CatchText(message, json) == IF message # "" THEN message ELSE json

CatchPart(c, out) ==
  Finish(c, out, Reply(c, "error", CatchText(out.message, StringifyError(out))))

\* ctx.reply('... response: ' + JSON.stringify(res))
ResponsePart(c, out) == Finish(c, out, Reply(c, "success", [by |-> out.by, data |-> out.data]))

NonZeroPart(balances) ==
  SelectSeq(balances, LAMBDA b : b.available + b.frozen > 0)

BalancePart(c) ==
  /\ prog = "part" /\ Accepting(c)
  /\ Invoke(c, "balance", <<>>, "getAccountBalancesV1", <<>>)
  /\ Keep

BalancePartResume(c) ==
  /\ Awaiting(c, "balance", "part")
  /\ \E out \in Outcomes(c) :
       IF out.ok
       THEN Finish(c, out, Reply(c, "success", [by |-> out.by, data |-> NonZeroPart(out.data)]))
       ELSE CatchPart(c, out)
  /\ Keep

SpotBuyPart(c, texts) ==
  /\ prog = "part" /\ Accepting(c)
  /\ \E rest \in texts :
     LET parts == SplitWs("/spot-buy", rest) IN
     IF Len(parts) < 5
     THEN Usage(c, "spot-buy", rest)
     ELSE Invoke(c, "spot-buy", rest, "submitSpotOrderV2",
                 [symbol |-> parts[2], side |-> parts[3], type |-> "limit",
                  size |-> parts[4], price |-> parts[5]])
  /\ Keep

SpotBuyPartResume(c) ==
  /\ Awaiting(c, "spot-buy", "part")
  /\ \E out \in Outcomes(c) :
       IF out.ok THEN ResponsePart(c, out) ELSE CatchPart(c, out)
  /\ Keep

SpotSellPart(c, texts) ==
  /\ prog = "part" /\ Accepting(c)
  /\ \E rest \in texts :
     LET parts == SplitWs("/spot-sell", rest) IN
     IF Len(parts) < 5
     THEN Usage(c, "spot-sell", rest)
     ELSE Invoke(c, "spot-sell", rest, "submitSpotOrderV2",
                 [symbol |-> parts[2], side |-> parts[3], type |-> "limit",
                  size |-> parts[4], price |-> parts[5]])
  /\ Keep

SpotSellPartResume(c) ==
  /\ Awaiting(c, "spot-sell", "part")
  /\ \E out \in Outcomes(c) :
       IF out.ok THEN ResponsePart(c, out) ELSE CatchPart(c, out)
  /\ Keep

\* the first of createWithdrawalV1, submitWithdrawV1, request that is a function
WithdrawMethod ==
  CASE "createWithdrawalV1" \in sdk -> "createWithdrawalV1"
    [] "submitWithdrawV1" \in sdk -> "submitWithdrawV1"
    [] "request" \in sdk -> "request"
    [] OTHER -> "none"

WithdrawPart(c, texts) ==
  /\ prog = "part" /\ Accepting(c)
  /\ \E rest \in texts :
     LET parts == SplitWs("/withdraw", rest) IN
     IF Len(parts) < 4
     THEN Usage(c, "withdraw", rest)
     ELSE IF WithdrawMethod = "none"
          THEN ThrowSync(c, "withdraw", rest, CatchText(WithdrawMissing, "{}"))
          ELSE Invoke(c, "withdraw", rest, WithdrawMethod,
                      [currency |-> parts[2], amount |-> parts[4], address |-> parts[3]])
  /\ Keep

WithdrawPartResume(c) ==
  /\ Awaiting(c, "withdraw", "part")
  /\ \E out \in Outcomes(c) :
       IF out.ok THEN ResponsePart(c, out) ELSE CatchPart(c, out)
  /\ Keep

FuturesPart(c, texts) ==
  /\ prog = "part" /\ Accepting(c)
  /\ \E rest \in texts :
     LET parts == SplitWs("/futures-order", rest) IN
     IF Len(parts) < 5
     THEN Usage(c, "futures-order", rest)
     ELSE IF "submitContractOrder" \notin sdk
          THEN ThrowSync(c, "futures-order", rest, CatchText(FuturesMissing, "{}"))
          ELSE Invoke(c, "futures-order", rest, "submitContractOrder",
                      [symbol |-> parts[2], side |-> toLowerCase(parts[3]),
                       size |-> parts[4], price |-> parts[5], order_type |-> "limit"])
  /\ Keep

FuturesPartResume(c) ==
  /\ Awaiting(c, "futures-order", "part")
  /\ \E out \in Outcomes(c) :
       IF out.ok THEN ResponsePart(c, out) ELSE CatchPart(c, out)
  /\ Keep

\* ------------------------------------------ src/index.js, Stars bot
Users == {"u1", "u2"}
StarButtons == {250, 500}               \* two of the nine stars_N buttons
ADMIN_USERNAME == "youradminusername"
RATE == 39                              \* 0.0039 USDT per Star, in 1/10000 USDT

\* ctx.from.username: u2 has none
Username(u) == IF u = "u1" THEN "alice" ELSE ""

\* the text messages a user sends, as sequences of characters
Texts == { <<"T">>, <<" ", "T", "T", " ">> }

\* String.prototype.trim
RECURSIVE TrimLeft(_)
TrimLeft(t) == IF t # <<>> /\ Head(t) = " " THEN TrimLeft(Tail(t)) ELSE t

RECURSIVE TrimRight(_)
TrimRight(t) ==
  IF t # <<>> /\ t[Len(t)] = " " THEN TrimRight(SubSeq(t, 1, Len(t) - 1)) ELSE t

trim(t) == TrimRight(TrimLeft(t))

\* (stars * RATE).toFixed(2), in hundredths of a USDT.  stars * 0.0039 is
\* rounded to the nearest hundredth; the double nearest to 250 * 0.0039 lies
\* below 0.975, so that tie prints as 0.97.
toFixed2(stars) ==
  LET x == stars * RATE IN
  IF x % 100 = 50 THEN x \div 100 ELSE (x + 50) \div 100

\* JSON.stringify({ stars, usdt, address }) and JSON.parse of it
JSONstringify(data) == <<data.stars, data.usdt, data.address>>
JSONparse(text) == [stars |-> text[1], usdt |-> text[2], address |-> text[3]]

\* ctx.session of the Context a new update gets: no session middleware is
\* registered on the bot, so nothing is carried from one update to the next
Undefined == [stars |-> 0, usdt |-> 0, defined |-> FALSE]
CtxSession(u) == Undefined

NoUpdate == [user |-> "", kind |-> "none", session |-> Undefined,
             pickedAt |-> 0, text |-> <<>>, sent |-> <<>>]

\* pickedAt: for a text message, the amount its user had selected and not
\* yet paid when the message was handled
Handled(u, kind, session, text, sent) ==
  upd' = [user |-> u, kind |-> kind, session |-> session,
          pickedAt |-> IF kind = "text" THEN picked[u] ELSE 0,
          text |-> text, sent |-> sent]

TradeIdle == UNCHANGED tradeVars

\* bot.start
Start(u) ==
  /\ Handled(u, "start", CtxSession(u), <<>>, <<[msg |-> "welcome"]>>)
  /\ UNCHANGED <<sales, pay, picked>>
  /\ TradeIdle

\* bot.action('sell_stars')
SellStars(u) ==
  /\ Handled(u, "sell_stars", CtxSession(u), <<>>, <<[msg |-> "select amount"]>>)
  /\ UNCHANGED <<sales, pay, picked>>
  /\ TradeIdle

\* bot.action(/stars_(\d+)/): ctx.session = { stars, usdt } on this update's ctx
SelectStars(u) ==
  /\ \E stars \in StarButtons :
       LET usdt == toFixed2(stars) IN
       /\ Handled(u, "stars", [stars |-> stars, usdt |-> usdt, defined |-> TRUE], <<>>,
                  <<[msg |-> "you chose", stars |-> stars, usdt |-> usdt]>>)
       /\ picked' = [picked EXCEPT ![u] = stars]
  /\ UNCHANGED <<sales, pay>>
  /\ TradeIdle

Invoice(stars, usdt, address) ==
  [msg |-> "invoice", amount |-> stars * 100000,
   payload |-> JSONstringify([stars |-> stars, usdt |-> usdt, address |-> address])]

\* bot.on('text')
OnText(u) ==
  /\ \E text \in Texts :
       LET session == CtxSession(u) IN
       IF ~session.defined \/ session.stars = 0
       THEN Handled(u, "text", session, text, <<[msg |-> "Use /start to begin again."]>>)
       ELSE LET address == trim(text) IN
            \E delivered \in BOOLEAN :
              Handled(u, "text", session, text,
                      IF delivered
                      THEN <<Invoice(session.stars, session.usdt, address),
                             [msg |-> "please pay", usdt |-> session.usdt,
                              address |-> address]>>
                      ELSE <<>>)
  /\ UNCHANGED <<sales, pay, picked>>
  /\ TradeIdle

\* bot.on('pre_checkout_query')
PreCheckout(u) ==
  /\ Handled(u, "pre_checkout_query", CtxSession(u), <<>>, <<[msg |-> "ok"]>>)
  /\ UNCHANGED <<sales, pay, picked>>
  /\ TradeIdle

\* the payloads of the invoices Telegram reports as paid
Payloads ==
  { JSONstringify([stars |-> 250, usdt |-> toFixed2(250), address |-> <<"T">>]),
    JSONstringify([stars |-> 500, usdt |-> toFixed2(500), address |-> <<"T", "T">>]) }

\* text bound to the REAL column usdt: its numeric value, in hundredths
RealAffinity(usdt) == usdt

\* mutant: the INSERT leaves paid to its DEFAULT 0
SaleRowUnpaid(u, data) ==
  [user_id |-> u,
   username |-> IF Username(u) # "" THEN Username(u) ELSE "-",
   stars |-> data.stars, usdt |-> RealAffinity(data.usdt),
   usdt_address |-> data.address, paid |-> 0]

\* INSERT INTO sales (user_id, username, stars, usdt, usdt_address, paid)
\* VALUES (?, ?, ?, ?, ?, 1)
SaleRow(u, data) ==
  [user_id |-> u,
   username |-> IF Username(u) # "" THEN Username(u) ELSE "-",
   stars |-> data.stars, usdt |-> RealAffinity(data.usdt),
   usdt_address |-> data.address, paid |-> 1]

\* bot.telegram.sendMessage(`@${ADMIN_USERNAME}`, NEW SALE ...)
AdminNote(u, data) ==
  [to |-> ADMIN_USERNAME,
   user |-> IF Username(u) # "" THEN Username(u) ELSE u,
   stars |-> data.stars, usdt |-> data.usdt, wallet |-> data.address]

NoNote == [to |-> "", user |-> "", stars |-> 0, usdt |-> 0, wallet |-> <<>>]

\* bot.on('successful_payment'), up to await ctx.reply: the row is inserted
SuccessfulPayment(u) ==
  /\ Len(pay) < MaxSales
  /\ \E payload \in Payloads :
       LET data == JSONparse(payload) IN
       /\ sales' = Append(sales, SaleRow(u, data))
       /\ pay' = Append(pay, [user |-> u, payload |-> payload, pc |-> "reply",
                              note |-> NoNote])
  /\ UNCHANGED <<upd, picked>>
  /\ TradeIdle

\* await ctx.reply settles: fulfilled, the admin message is sent and awaited;
\* rejected, the handler ends with the error
PaymentReplied(i) ==
  /\ i \in 1..Len(pay) /\ pay[i].pc = "reply"
  /\ \E delivered \in BOOLEAN :
       LET p == pay[i] IN
       pay' = [pay EXCEPT ![i] =
                 IF delivered
                 THEN [p EXCEPT !.pc = "notify",
                                !.note = AdminNote(p.user, JSONparse(p.payload))]
                 ELSE [p EXCEPT !.pc = "failed"]]
  /\ UNCHANGED <<sales, upd, picked>>
  /\ TradeIdle

\* await bot.telegram.sendMessage settles: fulfilled, ctx.session = {}
PaymentNotified(i) ==
  /\ i \in 1..Len(pay) /\ pay[i].pc = "notify"
  /\ \E delivered \in BOOLEAN :
       /\ pay' = [pay EXCEPT ![i] =
                    IF delivered
                    THEN [pay[i] EXCEPT !.pc = "done"]
                    ELSE [pay[i] EXCEPT !.pc = "failed", !.note = NoNote]]
       /\ picked' = IF delivered THEN [picked EXCEPT ![pay[i].user] = 0] ELSE picked
  /\ UNCHANGED <<sales, upd>>
  /\ TradeIdle

\* ------------------------------------------------ BitMart specifications
StarsIdle ==
  /\ sales = <<>>
  /\ pay = <<>>
  /\ upd = NoUpdate
  /\ picked = [u \in Users |-> 0]

Init ==
  /\ prog \in {"index", "part"}
  /\ env \in [{"TELEGRAM_BOT_TOKEN", "BITMART_API_KEY", "BITMART_API_SECRET",
               "BITMART_API_MEMO"} -> EnvVals]
  /\ sdk \in IF prog = "part" THEN SUBSET SdkMethods ELSE {{}}
  /\ proc = "boot"
  /\ exitCode = -1
  /\ clients = FALSE
  /\ h = [c \in Chats |-> Idle]
  /\ StarsIdle

Receive(c, texts) ==
  \/ BalanceIndex(c)
  \/ SpotBuyIndex(c, texts)
  \/ SpotSellIndex(c, texts)
  \/ WithdrawIndex(c, texts)
  \/ FuturesIndex(c, texts)
  \/ BalancePart(c)
  \/ SpotBuyPart(c, texts)
  \/ SpotSellPart(c, texts)
  \/ WithdrawPart(c, texts)
  \/ FuturesPart(c, texts)

Resume(c) ==
  \/ BalanceIndexResume(c)
  \/ SpotBuyIndexResume(c)
  \/ SpotSellIndexResume(c)
  \/ WithdrawIndexResume(c)
  \/ FuturesIndexResume(c)
  \/ BalancePartResume(c)
  \/ SpotBuyPartResume(c)
  \/ SpotSellPartResume(c)
  \/ WithdrawPartResume(c)
  \/ FuturesPartResume(c)

\* one chat, every message text
Next ==
  \/ MainIndex
  \/ MainPart
  \/ Receive("c1", Rests)
  \/ Resume("c1")
  \/ Return("c1")

Spec == Init /\ [][Next]_vars

\* both chats, handlers interleaved at their awaits; one text per length
ConcRests ==
  {[i \in 1..n |-> [gap |-> 1, word |-> IF i % 2 = 1 THEN "Sell" ELSE "buy"]] :
      n \in 0..MaxWords}

NextConc ==
  \/ MainIndex
  \/ MainPart
  \/ \E c \in Chats : Receive(c, ConcRests)
  \/ \E c \in Chats : Resume(c)
  \/ \E c \in Chats : Return(c)

SpecConc == Init /\ [][NextConc]_vars

\* --------------------------------------------------- Stars specification
InitStars ==
  /\ prog = "index"
  /\ env = [v \in {"TELEGRAM_BOT_TOKEN", "BITMART_API_KEY", "BITMART_API_SECRET",
                   "BITMART_API_MEMO"} |-> "undefined"]
  /\ sdk = {}
  /\ proc = "boot"
  /\ exitCode = -1
  /\ clients = FALSE
  /\ h = [c \in Chats |-> Idle]
  /\ StarsIdle

NextStars ==
  \/ \E u \in Users : Start(u)
  \/ \E u \in Users : SellStars(u)
  \/ \E u \in Users : SelectStars(u)
  \/ \E u \in Users : OnText(u)
  \/ \E u \in Users : PreCheckout(u)
  \/ \E u \in Users : SuccessfulPayment(u)
  \/ \E i \in 1..MaxSales : PaymentReplied(i)
  \/ \E i \in 1..MaxSales : PaymentNotified(i)

SpecStars == InitStars /\ [][NextStars]_vars

\* ---------------------------------------------------- BitMart properties
Over(c) == h[c].pc = "done"
Threw(c) == h[c].calls = 1 /\ h[c].out.by = c /\ ~h[c].out.ok
Carries(body, message) == message = "" \/ body = message

SpotBuyCmds == {"spotbuy", "spot-buy"}
SpotSellCmds == {"spotsell", "spot-sell"}
OrderCmds == {"spotbuy", "spotsell", "withdraw", "futures",
              "spot-buy", "spot-sell", "futures-order"}

\* the number of arguments the usage text of a command asks for
Required(cmd) == IF cmd \in {"spotbuy", "spotsell", "withdraw"} THEN 3 ELSE 4

(* C1: an order or withdrawal command message causes exactly one SDK call   *)
(* when it carries at least the required number of arguments, and no SDK    *)
(* call and only a usage reply when it carries fewer; a call is never       *)
(* repeated.                                                                *)
C1_OneCallPerCommand ==
  \A c \in Chats :
    /\ h[c].calls <= 1
    /\ (Over(c) /\ h[c].cmd \in OrderCmds) =>
         IF Len(h[c].args) >= Required(h[c].cmd)
         THEN h[c].calls = 1
         ELSE /\ h[c].calls = 0
              /\ Len(h[c].replies) = 1
              /\ h[c].replies[1].kind = "usage"

(* C2: every handled command message ends with exactly one reply, of kind   *)
(* usage, success or error; when the SDK call threw or rejected, that one   *)
(* reply is the error reply carrying the error's message, and the bot keeps *)
(* running.                                                                 *)
C2_CatchAndPrint ==
  \A c \in Chats :
    /\ h[c].pc \in {"idle", "await"} => h[c].replies = <<>>
    /\ Over(c) =>
         /\ Len(h[c].replies) = 1
         /\ h[c].replies[1].kind \in {"usage", "success", "error"}
         /\ Threw(c) =>
              /\ h[c].replies[1].kind = "error"
              /\ Carries(h[c].replies[1].body, h[c].out.message)
              /\ proc = "running"

C2_Witness ==
  \E c \in Chats :
    /\ Over(c) /\ Threw(c) /\ h[c].out.message = "e1"
    /\ h[c].replies = <<Reply(c, "error", "e1")>>

\* the arguments the usage text names SYMBOL, size and price
TypedSymbol(c) == h[c].args[1]
TypedSize(c) == IF prog = "index" THEN h[c].args[2] ELSE h[c].args[3]
TypedPrice(c) == IF prog = "index" THEN h[c].args[3] ELSE h[c].args[4]

(* C3: a spot order submitted by the spot buy command has side 'buy', one   *)
(* submitted by the spot sell command has side 'sell'; both have type       *)
(* 'limit' and carry the symbol, size and price the user typed.             *)
C3_SpotSides ==
  \A c \in Chats :
    (h[c].calls = 1 /\ h[c].cmd \in SpotBuyCmds \cup SpotSellCmds) =>
      /\ h[c].call.params.side = IF h[c].cmd \in SpotBuyCmds THEN "buy" ELSE "sell"
      /\ h[c].call.params.type = "limit"
      /\ h[c].call.params.symbol = TypedSymbol(c)
      /\ h[c].call.params.size = TypedSize(c)
      /\ h[c].call.params.price = TypedPrice(c)

\* every reply of a handler goes to its chat and holds its own settlement
C4_OwnReply ==
  \A c \in Chats : \A i \in 1..Len(h[c].replies) :
    LET r == h[c].replies[i] IN
    /\ r.to = c
    /\ r.kind = "success" => (h[c].out.ok /\ h[c].out.by = c /\ r.body.by = c)
    /\ (r.kind = "error" /\ h[c].calls = 1) =>
         (Threw(c) /\ Carries(r.body, h[c].out.message))

\* a step that changes one chat's handler changes nothing else
C4_Frame ==
  \A c \in Chats : h'[c] # h[c] =>
    /\ \A d \in Chats \ {c} : h'[d] = h[d]
    /\ UNCHANGED <<prog, env, sdk, proc, exitCode, clients>>

(* C4: under any interleaving of the handlers of two chats, every reply     *)
(* goes to the chat whose message started the handler and holds the result  *)
(* or the error of that handler's own SDK call; a step of one chat's        *)
(* handler changes nothing of the other chat's handler.                     *)
C4_Independent == []C4_OwnReply /\ [][C4_Frame]_vars

C4_Witness ==
  /\ Over("c1") /\ h["c1"].replies[1].kind = "success"
  /\ h["c2"].pc = "await" /\ h["c2"].cmd # h["c1"].cmd

Required3 == {"TELEGRAM_BOT_TOKEN", "BITMART_API_KEY", "BITMART_API_SECRET"}
AllSet == \A v \in Required3 : env[v] = "k"

(* C6: the bot launches and handles commands only when token, API key and   *)
(* API secret are all set; when one of them is missing the process has      *)
(* exited with status 1, no client was created and no command was handled.  *)
(* A missing memo never prevents the launch.                                *)
C6_EnvGate ==
  /\ (clients \/ proc \in {"running", "launch_failed"} \/ \E c \in Chats : h[c] # Idle)
       => AllSet
  /\ (proc # "boot" /\ ~AllSet) =>
       /\ proc = "exited" /\ exitCode = 1
       /\ ~clients
       /\ \A c \in Chats : h[c] = Idle
  /\ (proc # "boot" /\ AllSet) =>
       /\ clients /\ exitCode = -1
       /\ proc \in {"running", "launch_failed"}

C6_Witness ==
  /\ proc = "exited" /\ exitCode = 1 /\ ~clients
  /\ env["TELEGRAM_BOT_TOKEN"] = "k" /\ env["BITMART_API_KEY"] = "k"
  /\ env["BITMART_API_SECRET"] = ""

(* C5: every successful-payment notification for which a sales row is      *)
(* stored is followed by a chat notification to the admin that names the    *)
(* wallet address, Stars amount and USDT amount of that row.  Stated for    *)
(* the handlers that have ended.                                            *)
C5_AdminNotified ==
  \A i \in 1..Len(pay) :
    (pay[i].pc \in {"done", "failed"} /\ i <= Len(sales)) =>
      /\ pay[i].note.to = ADMIN_USERNAME
      /\ pay[i].note.wallet = sales[i].usdt_address
      /\ pay[i].note.stars = sales[i].stars
      /\ pay[i].note.usdt = sales[i].usdt

(* C7: a text message produces an invoice exactly when its user selected a  *)
(* positive Stars amount earlier and completed no payment since; the        *)
(* invoice's payload then holds that amount, the USDT amount computed at    *)
(* selection and the trimmed text as address.  In every other case the only *)
(* reply is 'Use /start to begin again.'.                                   *)
C7_InvoiceAfterSelection ==
  upd.kind = "text" =>
    IF upd.pickedAt > 0
    THEN /\ Len(upd.sent) >= 1
         /\ upd.sent[1] = Invoice(upd.pickedAt, toFixed2(upd.pickedAt), trim(upd.text))
    ELSE upd.sent = <<[msg |-> "Use /start to begin again."]>>

\* row i is the row of the i-th payment notification
C8_Rows ==
  /\ Len(sales) = Len(pay)
  /\ \A i \in 1..Len(sales) :
       LET data == JSONparse(pay[i].payload) IN
       /\ sales[i].paid = 1
       /\ sales[i].user_id = pay[i].user
       /\ sales[i].stars = data.stars
       /\ sales[i].usdt = data.usdt
       /\ sales[i].usdt_address = data.address

\* a step keeps every row and adds one only together with a payment
C8_InsertOnly ==
  /\ Len(sales') >= Len(sales)
  /\ SubSeq(sales', 1, Len(sales)) = sales
  /\ Len(sales') > Len(sales) => Len(pay') = Len(pay) + 1

(* C8: the sales table is insert-only and mirrors the payments: it has one  *)
(* row per successful-payment notification handled, every row has paid = 1  *)
(* and holds the paying user's id and the stars, usdt and address of the    *)
(* paid invoice's payload; no step changes or removes a row.                *)
C8_SalesMirrorPayments == []C8_Rows /\ [][C8_InsertOnly]_vars

C8_Witness ==
  /\ Len(sales) = 2
  /\ sales[1].user_id = "u2" /\ sales[1].stars = 500
  /\ sales[2].user_id = "u1" /\ sales[2].stars = 250
  /\ sales[1].usdt_address # sales[2].usdt_address

====
